---- MODULE Spec2Model ----
(***************************************************************************)
(* Collapsible family tree (d3): the load handler, collapseRecursively,    *)
(* toggleChildren, updateTree (layout, bounds, SVG sizing, data join,      *)
(* transitions) and the node click handler, for the two script variants    *)
(* of the repository: src/tree_logic.js and src/unnamed/part_000.          *)
(***************************************************************************)
EXTENDS Integers, Sequences, FiniteSets, TLC

VARIABLES
    variant,                \* which of the two scripts the page runs
    calculatedInitialWidth, \* minimum drawing width, from the container's clientWidth
    fetch,                  \* state of the d3.json promise
    container,              \* content of .tree-visualization-container
    errorCalls,             \* number of displayError calls so far
    doc,                    \* familyData (index into Docs; 0 before the load resolves)
    children,               \* node -> JS value of d.children
    _children,              \* node -> JS value of d._children
    id,                     \* node -> d.id (Undef until the key function assigns it)
    nodeIndex,              \* counter of synthetic identifiers
    x, y,                   \* node -> position; DOMAIN = nodes that were laid out
    x0, y0,                 \* node -> previous position; DOMAIN = nodes that have one
    bounds,                 \* minX_node, maxX_node, minY_node, maxY_node of the last pass
    svgWidth, svgHeight,    \* attributes of the <svg> element
    gTransform,             \* transform attribute of the main <g>: <<tx, ty, k>>
    zoomTransform,          \* d3.zoom's transform stored on the <svg>
    rendered,               \* the g.node elements of the main <g>, in DOM order
    renderedLinks,          \* the path.link elements of the main <g>, in DOM order
    panel,                  \* the four regions of the detail panel
    activations,            \* number of node activations handled so far
    record,                 \* the record last handed to displayDetails or to the class callback
    outcome                 \* what that call was and gave: the node, the origin, the class, a throw

vars == <<variant, calculatedInitialWidth, fetch, container, errorCalls, doc,
          children, _children, id, nodeIndex, x, y, x0, y0, bounds,
          svgWidth, svgHeight, gTransform, zoomTransform, rendered, renderedLinks,
          panel, activations, record, outcome>>

-----------------------------------------------------------------------------
(* JavaScript values *)

\* undefined, as the value of a string-valued field
Undef == "undefined"

\* JS truthiness of a string-valued field: undefined and "" are falsy
\* (a numeric id 0 is falsy the same way "" is)
TruthyStr(s) == s # Undef /\ s # ""

\* a || b on string-valued fields
OrElse(a, b) == IF TruthyStr(a) THEN a ELSE b

\* the values a child-list field takes: undefined, null, or a non-empty array
UNDEF == <<"undefined", <<>>>>
NULL == <<"null", <<>>>>
Arr(s) == <<"array", s>>
Truthy(v) == v[1] = "array"
\* the list a child-list field stands for (undefined and null: the empty list)
ListOf(v) == IF Truthy(v) THEN v[2] ELSE <<>>

Max(a, b) == IF a >= b THEN a ELSE b
SetMax(S) == CHOOSE m \in S : \A o \in S : o <= m
SetMin(S) == CHOOSE m \in S : \A o \in S : m <= o
Range(s) == {s[i] : i \in DOMAIN s}

-----------------------------------------------------------------------------
(* Configuration of the two scripts *)

Variants == {"tree_logic", "part_000"}

\* container.clientWidth values the page may have
ClientWidths == {700}

MinWidth(v) == IF v = "tree_logic" THEN 600 ELSE 800
InitialWidth(v, clientWidth) == IF clientWidth > MinWidth(v) THEN clientWidth ELSE MinWidth(v)
initialHeight(v) == IF v = "tree_logic" THEN 600 ELSE 700
margin(v) == IF v = "tree_logic"
             THEN [top |-> 40, right |-> 120, bottom |-> 40, left |-> 180]
             ELSE [top |-> 50, right |-> 150, bottom |-> 50, left |-> 200]
\* d3.tree().nodeSize([dx, dy])
nodeSize(v) == IF v = "tree_logic" THEN [dx |-> 40, dy |-> 250] ELSE [dx |-> 40, dy |-> 260]
\* buffers added to the required SVG size
buffer(v) == IF v = "tree_logic" THEN [w |-> 200, h |-> 100] ELSE [w |-> 250, h |-> 60]
\* rootNodeD3.x0 set by the load handler
rootX0(v) == IF v = "tree_logic"
             THEN (initialHeight(v) - margin(v).top - margin(v).bottom) \div 2
             ELSE initialHeight(v) \div 2 - margin(v).top

-----------------------------------------------------------------------------
(* Documents: family_tree.json as parsed.  A document has n records, 1..n,  *)
(* record 1 the root; kids is each record's children array, rid its id,     *)
(* rname its name (Undef: the field is absent).  n = 0 is the JSON null.    *)

NoKids(n) == [i \in 1..n |-> <<>>]
AllUndef(n) == [i \in 1..n |-> Undef]
Named(n) == [i \in 1..n |-> "Ann"]

Docs == <<
    \* 1: four generations, no ids
    [n |-> 5, kids |-> [NoKids(5) EXCEPT ![1] = <<2, 3>>, ![2] = <<4>>, ![4] = <<5>>],
     rid |-> AllUndef(5), rname |-> Named(5)],
    \* 2: a wide root, distinct ids, one unnamed record
    [n |-> 5, kids |-> [NoKids(5) EXCEPT ![1] = <<2, 3, 4, 5>>],
     rid |-> <<"a", "b", "c", "d", "e">>, rname |-> [Named(5) EXCEPT ![3] = Undef]],
    \* 3: a single record with an id and no name
    [n |-> 1, kids |-> NoKids(1), rid |-> <<"r">>, rname |-> AllUndef(1)],
    \* 4: three generations; absent, empty and repeated ids, one shaped like a synthetic id
    [n |-> 5, kids |-> [NoKids(5) EXCEPT ![1] = <<2, 3>>, ![2] = <<4, 5>>],
     rid |-> <<Undef, "node-1", "", "k", "k">>, rname |-> Named(5)],
    \* 5: root with neither name nor id
    [n |-> 2, kids |-> [NoKids(2) EXCEPT ![1] = <<2>>], rid |-> <<Undef, "b">>, rname |-> <<Undef, "Bob">>],
    \* 6: JSON null
    [n |-> 0, kids |-> <<>>, rid |-> <<>>, rname |-> <<>>],
    \* 7: root whose only identifying field is an empty-string id
    [n |-> 3, kids |-> [NoKids(3) EXCEPT ![1] = <<2, 3>>], rid |-> <<"", "b", "c">>, rname |-> <<Undef, "Bob", "Cy">>],
    \* 8: fifteen siblings, taller than the minimum drawing height of either script
    [n |-> 16, kids |-> [NoKids(16) EXCEPT ![1] = [i \in 1..15 |-> i + 1]],
     rid |-> AllUndef(16), rname |-> Named(16)],
    \* 9: two branches of two generations: collapsing one moves both
    [n |-> 5, kids |-> [NoKids(5) EXCEPT ![1] = <<2, 3>>, ![2] = <<4>>, ![3] = <<5>>],
     rid |-> AllUndef(5), rname |-> Named(5)]
>>

NodesOf(k) == IF k = 0 THEN {} ELSE 1..Docs[k].n
rootNodeD3 == 1

-----------------------------------------------------------------------------
(* d3.hierarchy and the collapse state manager *)

\* d3.hierarchy(familyData, d => d.children): a node's children is set only
\* when the record's array is non-empty
hierarchy(k) == [children |-> [i \in NodesOf(k) |->
                                 IF Docs[k].kids[i] = <<>> THEN UNDEF ELSE Arr(Docs[k].kids[i])],
                 _children |-> [i \in NodesOf(k) |-> UNDEF]]

RECURSIVE collapseRecursively(_, _)
RECURSIVE collapseEach(_, _)
\* a collapse that does not descend into the hidden list of a node that is
\* collapsed already
collapseSkipsHidden(T, d) ==
    IF Truthy(T.children[d])
    THEN LET T1 == [T EXCEPT !._children[d] = T.children[d]]
             T2 == collapseEach(T1, ListOf(T1._children[d]))
         IN [T2 EXCEPT !.children[d] = NULL]
    ELSE T

\* list.forEach(collapseRecursively)
collapseEach(T, list) ==
    IF list = <<>> THEN T
    ELSE collapseEach(collapseRecursively(T, Head(list)), Tail(list))

collapseRecursively(T, d) ==
    IF Truthy(T.children[d])
    THEN LET T1 == [T EXCEPT !._children[d] = T.children[d]]
             T2 == collapseEach(T1, ListOf(T1._children[d]))
         IN [T2 EXCEPT !.children[d] = NULL]
    ELSE IF Truthy(T._children[d])
    THEN collapseEach(T, ListOf(T._children[d]))
    ELSE T

RECURSIVE collapseGrandchildren(_, _)
\* rootNodeD3.children.forEach(parentOfMe => { if (parentOfMe.children)
\*     parentOfMe.children.forEach(collapseRecursively) })
collapseGrandchildren(T, list) ==
    IF list = <<>> THEN T
    ELSE LET parentOfMe == Head(list)
             T1 == IF Truthy(T.children[parentOfMe])
                   THEN collapseEach(T, ListOf(T.children[parentOfMe]))
                   ELSE T
         IN collapseGrandchildren(T1, Tail(list))

\* a collapse that starts one generation higher, at the root's children
initialCollapseFromChildren(T) ==
    IF Truthy(T.children[rootNodeD3])
    THEN collapseEach(T, ListOf(T.children[rootNodeD3]))
    ELSE T

\* a collapse of the whole tree, the root included
initialCollapseFromRoot(T) == collapseRecursively(T, rootNodeD3)

\* the initial collapse strategy of the load handler
initialCollapse(T) ==
    IF Truthy(T.children[rootNodeD3])
    THEN collapseGrandchildren(T, ListOf(T.children[rootNodeD3]))
    ELSE T

\* a toggle whose expand branch collapses the children it brings back
toggleCollapsesRevealed(T, d) ==
    IF Truthy(T.children[d])
    THEN [T EXCEPT !._children[d] = T.children[d], !.children[d] = NULL]
    ELSE collapseEach([T EXCEPT !.children[d] = T._children[d], !._children[d] = NULL],
                      ListOf(T._children[d]))

\* a toggle whose collapse branch does not keep the list it takes away
toggleDropsChildren(T, d) ==
    IF Truthy(T.children[d])
    THEN [T EXCEPT !.children[d] = NULL]
    ELSE [T EXCEPT !.children[d] = T._children[d], !._children[d] = NULL]

\* a toggle whose collapse branch collapses the whole subtree
toggleCollapsesBelow(T, d) ==
    IF Truthy(T.children[d])
    THEN collapseRecursively(T, d)
    ELSE [T EXCEPT !.children[d] = T._children[d], !._children[d] = NULL]

\* a toggle whose expand branch leaves d._children set
toggleKeepsHidden(T, d) ==
    IF Truthy(T.children[d])
    THEN [T EXCEPT !._children[d] = T.children[d], !.children[d] = NULL]
    ELSE [T EXCEPT !.children[d] = T._children[d]]

toggleChildren(T, d) ==
    IF Truthy(T.children[d])
    THEN [T EXCEPT !._children[d] = T.children[d], !.children[d] = NULL]
    ELSE [T EXCEPT !.children[d] = T._children[d], !._children[d] = NULL]

-----------------------------------------------------------------------------
(* The layout engine: d3.tree() with nodeSize, run on the visible tree.     *)
(* ch maps each node to its list of visible children.  firstWalk returns,   *)
(* for the subtree of v, each node's offset from v on the sibling axis and  *)
(* its depth below v.                                                       *)

HasDepth(f, d) == \E r \in f : r.dep = d
ContourMax(f, d) == SetMax({r.off : r \in {o \in f : o.dep = d}})
ContourMin(f, d) == SetMin({r.off : r \in {o \in f : o.dep = d}})

\* moveSubtree(wm, wp, shift), wm the j-th and wp the i-th child
moveSubtree(st, j, i, shift) ==
    LET change == shift \div (i - j)
    IN [z |-> [st.z EXCEPT ![i] = @ + shift],
        s |-> [st.s EXCEPT ![i] = @ + shift],
        c |-> [[st.c EXCEPT ![i] = @ - change] EXCEPT ![j] = @ + change]]

RECURSIVE apportion(_, _, _, _, _)
\* the contour walk of apportion for the i-th child, from depth d below the
\* children on: the right contour of the children before i against the left
\* contour of i, separated as cousins (2 * dx)
apportion(sub, st, i, d, dx) ==
    IF ~HasDepth(sub[i], d) \/ ~(\E j \in 1..(i - 1) : HasDepth(sub[j], d))
    THEN st
    ELSE LET j == SetMax({o \in 1..(i - 1) : HasDepth(sub[o], d)})
             shift == (st.z[j] + ContourMax(sub[j], d)) - (st.z[i] + ContourMin(sub[i], d)) + 2 * dx
         IN apportion(sub, IF shift > 0 THEN moveSubtree(st, j, i, shift) ELSE st, i, d + 1, dx)

RECURSIVE placeChildren(_, _, _, _)
\* firstWalk of the children 1..k in order: each starts one separation (dx)
\* after its left sibling and is then apportioned
placeChildren(sub, st, i, dx) ==
    IF i > Len(sub) THEN st
    ELSE placeChildren(sub,
                       apportion(sub, IF i = 1 THEN st ELSE [st EXCEPT !.z[i] = st.z[i - 1] + dx],
                                 i, 1, dx),
                       i + 1, dx)

RECURSIVE executeShifts(_, _, _, _)
\* executeShifts: from the last child to the first, z += shift,
\* shift += s + (change += c); the children's final positions, first to last
executeShifts(st, i, shift, change) ==
    IF i = 0 THEN <<>>
    ELSE Append(executeShifts(st, i - 1, shift + st.s[i] + change + st.c[i], change + st.c[i]),
                st.z[i] + shift)

Zeros(k) == [i \in 1..k |-> 0]

RECURSIVE firstWalk(_, _, _)
RECURSIVE walkEach(_, _, _)
\* firstWalk of each node of list, in order
walkEach(ch, list, dx) ==
    IF list = <<>> THEN <<>>
    ELSE <<firstWalk(ch, Head(list), dx)>> \o walkEach(ch, Tail(list), dx)

\* the subtrees sub of v's children, the i-th placed at z[i], seen from v,
\* which sits at the midpoint of its first and last child
centred(v, sub, z) ==
    {[n |-> v, off |-> 0, dep |-> 0]} \cup
    UNION {{[n |-> r.n, off |-> z[i] - (z[1] + z[Len(z)]) \div 2 + r.off, dep |-> r.dep + 1] : r \in sub[i]}
           : i \in DOMAIN sub}

\* the subtree of v: for each node n its offset off from v on the sibling
\* axis and its depth dep below v
firstWalk(ch, v, dx) ==
    IF ch[v] = <<>>
    THEN {[n |-> v, off |-> 0, dep |-> 0]}
    ELSE LET sub == walkEach(ch, ch[v], dx)
             st0 == [z |-> Zeros(Len(ch[v])), s |-> Zeros(Len(ch[v])), c |-> Zeros(Len(ch[v]))]
         IN centred(v, sub, executeShifts(placeChildren(sub, st0, 1, dx), Len(ch[v]), 0, 0))

\* treeLayout(rootNodeD3): the root at x = 0, x in units of dx, y = depth * dy
treeLayout(ch, size) ==
    {[n |-> r.n, x |-> r.off, y |-> r.dep * size.dy] : r \in firstWalk(ch, rootNodeD3, size.dx)}

RECURSIVE Bfs(_, _)
Bfs(ch, queue) ==
    IF queue = <<>> THEN <<>>
    ELSE <<Head(queue)>> \o Bfs(ch, Tail(queue) \o ch[Head(queue)])

\* treeDataLayout.descendants(): the visible nodes, breadth first
descendants(ch) == Bfs(ch, <<rootNodeD3>>)

-----------------------------------------------------------------------------
(* Record fields read by the detail panel *)

\* data.details of record i of document k: year_info, raw, origin (Undef when
\* details or the field is absent) and origin_breakdown, the mapping's
\* entries <<country, weight>> in key order, weights in 1/10000 (<<>> stands
\* for an absent or empty mapping)
details(k, i) ==
    IF k = 1 /\ i = 2
    THEN [year_info |-> "b. 1900", raw |-> "Ann (1900)", origin |-> "Wales",
          origin_breakdown |-> <<<<"Wales", 2500>>, <<"Unknown", 10>>, <<"Ireland", 7490>>, <<"Poland", 5>>>>]
    ELSE IF k = 2 /\ i \in {1, 4}
    THEN [year_info |-> Undef, raw |-> "", origin |-> Undef,
          origin_breakdown |-> <<<<"Italy", 5000>>, <<"Greece", 5000>>>>]
    ELSE IF k = 4 /\ i = 3
    THEN [year_info |-> "", raw |-> "raw", origin |-> "", origin_breakdown |-> <<>>]
    ELSE [year_info |-> Undef, raw |-> Undef, origin |-> Undef, origin_breakdown |-> <<>>]

RECURSIVE insertSorted(_, _)
\* place e after every entry of the sorted list s that does not compare
\* after it under (a, b) => b - a
insertSorted(s, e) ==
    IF s = <<>> THEN <<e>>
    ELSE IF Head(s)[2] >= e[2] THEN <<Head(s)>> \o insertSorted(Tail(s), e)
    ELSE <<e>> \o s

RECURSIVE sortDescending(_)
\* Object.entries(breakdown).sort(([,a],[,b]) => b-a), a stable sort
sortDescending(s) ==
    IF s = <<>> THEN <<>>
    ELSE insertSorted(sortDescending(SubSeq(s, 1, Len(s) - 1)), s[Len(s)])

\* a list that keeps the entries of exactly 0.001 as well
breakdownListInclusive(s) == SelectSeq(sortDescending(s), LAMBDA e : e[2] >= 10)

\* the <li> entries of breakdownHtml: those with percentage > 0.001
breakdownList(s) == SelectSeq(sortDescending(s), LAMBDA e : e[2] > 10)

\* the panel before any activation
emptyPanel == [name |-> "", origin |-> <<"", <<>>>>, year |-> "", raw |-> ""]

\* a record as the panel and the class callback read it: d.data of record i
\* of document k (the documents carry no origin_mix and no countryOfOrigin)
recordOf(k, i) ==
    LET det == details(k, i)
    IN [name |-> Docs[k].rname[i],
        has_details |-> (k = 1 /\ i = 2) \/ (k = 2 /\ i \in {1, 4}) \/ (k = 4 /\ i = 3),
        has_breakdown |-> det.origin_breakdown # <<>>,
        origin_breakdown |-> det.origin_breakdown,
        year_info |-> det.year_info, raw |-> det.raw, origin |-> det.origin,
        has_origin_mix |-> FALSE, origin_mix |-> <<>>,
        countryOfOrigin |-> Undef]

\* el.textContent = v: undefined is written as the empty string
textContent(v) == IF v = Undef THEN "" ELSE v

\* data.details?.f: undefined when data.details is absent
optionalField(data, f) == IF data.has_details THEN data[f] ELSE Undef

\* displayDetails reading data.details.f without the optional chaining: the
\* read throws when data.details is absent
displayDetailsUnguarded(v, data, old) ==
    IF ~data.has_details
    THEN [panel |-> [old EXCEPT !.name = OrElse(data.name, "N/A")], threw |-> TRUE]
    ELSE [panel |-> [name   |-> OrElse(data.name, "N/A"),
                     origin |-> IF v = "tree_logic"
                                THEN (IF data.has_breakdown /\ data.origin_breakdown # <<>>
                                      THEN <<"ul", breakdownList(data.origin_breakdown)>>
                                      ELSE <<"N/A", <<>>>>)
                                ELSE <<OrElse(data.origin, "N/A"), <<>>>>,
                     year   |-> OrElse(data.year_info, "N/A"),
                     raw    |-> textContent(OrElse(data.raw, data.name))],
          threw |-> FALSE]

\* displayDetails writing the origin, year and text regions only for a record
\* that has details: the regions keep what the previous call wrote
displayDetailsKeepsShown(v, data, old) ==
    IF ~data.has_details
    THEN [panel |-> [old EXCEPT !.name = OrElse(data.name, "N/A")], threw |-> FALSE]
    ELSE [panel |-> [name   |-> OrElse(data.name, "N/A"),
                     origin |-> IF v = "tree_logic"
                                THEN (IF data.has_breakdown /\ data.origin_breakdown # <<>>
                                      THEN <<"ul", breakdownList(data.origin_breakdown)>>
                                      ELSE <<"N/A", <<>>>>)
                                ELSE <<OrElse(data.origin, "N/A"), <<>>>>,
                     year   |-> OrElse(data.year_info, "N/A"),
                     raw    |-> textContent(OrElse(data.raw, data.name))],
          threw |-> FALSE]

\* displayDetails(data) with the panel showing old before: the content of
\* the four regions afterwards, and whether the call threw
displayDetailsData(v, data, old) ==
    LET breakdown == IF data.has_details /\ data.has_breakdown
                     THEN data.origin_breakdown ELSE <<>>
    IN [panel |-> [name   |-> OrElse(data.name, "N/A"),
                   origin |-> IF v = "tree_logic"
                              THEN (IF breakdown # <<>>
                                    THEN <<"ul", breakdownList(breakdown)>>
                                    ELSE <<"N/A", <<>>>>)
                              ELSE <<OrElse(optionalField(data, "origin"), "N/A"), <<>>>>,
                   year   |-> OrElse(optionalField(data, "year_info"), "N/A"),
                   raw    |-> textContent(OrElse(optionalField(data, "raw"), data.name))],
        threw |-> FALSE]

\* displayDetails(d.data) for record d of document k
displayDetails(v, k, d) == displayDetailsData(v, recordOf(k, d), emptyPanel).panel


-----------------------------------------------------------------------------
(* Origin classification: getDominantOrigin and sanitizeForCss *)

\* the country names of the records, in the order of String.localeCompare
\* (letters compared without case first, lower case before upper case)
Collation == <<"Italy", "unknown", "Unknown", "USA", "Wales">>

\* a.localeCompare(b): negative, zero or positive
localeCompare(a, b) ==
    (CHOOSE i \in DOMAIN Collation : Collation[i] = a)
        - (CHOOSE i \in DOMAIN Collation : Collation[i] = b)

\* country.toLowerCase()
toLowerCase(c) ==
    CASE c = "Italy" -> "italy"
      [] c = "Unknown" -> "unknown"
      [] c = "USA" -> "usa"
      [] c = "Wales" -> "wales"
      [] OTHER -> c

\* originMix["Unknown"] >= 0.5 (weights in 1/10000; an absent key gives
\* undefined, and undefined >= 0.5 is false)
unknownAtLeastHalf(originMix) ==
    \E i \in DOMAIN originMix : originMix[i][1] = "Unknown" /\ originMix[i][2] >= 5000

\* one step of the for-in loop that takes a tie whatever the names are
scanEntryTieTakesLast(st, e) ==
    IF toLowerCase(e[1]) # "unknown" /\ e[2] > st.maxPercentage
    THEN [dominantCountry |-> e[1], maxPercentage |-> e[2], hasKnownOrigin |-> TRUE]
    ELSE IF toLowerCase(e[1]) # "unknown" /\ e[2] = st.maxPercentage
    THEN [st EXCEPT !.dominantCountry = e[1], !.hasKnownOrigin = TRUE]
    ELSE st

\* one step of the for-in loop of getDominantOrigin, on the entry e
scanEntry(st, e) ==
    IF toLowerCase(e[1]) # "unknown" /\ e[2] > st.maxPercentage
    THEN [dominantCountry |-> e[1], maxPercentage |-> e[2], hasKnownOrigin |-> TRUE]
    ELSE IF toLowerCase(e[1]) # "unknown" /\ e[2] = st.maxPercentage
    THEN [st EXCEPT !.dominantCountry = IF localeCompare(e[1], st.dominantCountry) < 0
                                        THEN e[1] ELSE @,
                    !.hasKnownOrigin = TRUE]
    ELSE st

RECURSIVE scanMix(_, _)
\* the for-in loop over the entries of originMix, in iteration order
scanMix(st, originMix) ==
    IF originMix = <<>> THEN st
    ELSE scanMix(scanEntry(st, Head(originMix)), Tail(originMix))

\* getDominantOrigin that lets the fallback country win over an Unknown
\* weight of a half or more
getDominantOriginFallbackFirst(hasMix, originMix, fallbackCountry) ==
    IF hasMix /\ originMix # <<>>
    THEN LET st == scanMix([dominantCountry |-> "unknown", maxPercentage |-> 0,
                            hasKnownOrigin |-> FALSE], originMix)
         IN IF st.dominantCountry = "unknown" /\ TruthyStr(fallbackCountry)
            THEN fallbackCountry
            ELSE st.dominantCountry
    ELSE OrElse(fallbackCountry, "unknown")

\* getDominantOrigin(originMix, fallbackCountry); hasMix: originMix is an
\* object (not undefined), originMix its entries in iteration order
getDominantOrigin(hasMix, originMix, fallbackCountry) ==
    IF hasMix /\ originMix # <<>>
    THEN LET st == scanMix([dominantCountry |-> "unknown", maxPercentage |-> 0,
                            hasKnownOrigin |-> FALSE], originMix)
         IN IF ~st.hasKnownOrigin /\ unknownAtLeastHalf(originMix)
            THEN "unknown"
            ELSE IF st.dominantCountry = "unknown" /\ TruthyStr(fallbackCountry)
            THEN fallbackCountry
            ELSE st.dominantCountry
    ELSE OrElse(fallbackCountry, "unknown")

\* sanitizeForCss(className): characters outside [a-zA-Z0-9-_] become "_",
\* then lower case; a falsy name gives "unknown" (the names of the model
\* hold letters only)
sanitizeForCss(className) ==
    IF ~TruthyStr(className) THEN "unknown" ELSE toLowerCase(className)

\* the class callback of nodeEnter: the country class of the node of data
countryClass(v, data) ==
    IF v = "tree_logic"
    THEN sanitizeForCss(getDominantOrigin(data.has_origin_mix, data.origin_mix,
                                           data.countryOfOrigin))
    ELSE sanitizeForCss(OrElse(data.countryOfOrigin, "unknown"))

-----------------------------------------------------------------------------
(* updateTree: layout, bounds, SVG sizing *)

\* source.x0 / source.y0 as updateTree leaves them before the layout
sourceX0(v, px, px0, source) ==
    IF source \in DOMAIN px0 THEN px0[source]
    ELSE IF v = "tree_logic" THEN (initialHeight(v) - margin(v).top - margin(v).bottom) \div 2
    ELSE IF source \in DOMAIN px THEN px[source]
    ELSE initialHeight(v) \div 2 - margin(v).top

sourceY0(v, py, py0, source) ==
    IF source \in DOMAIN py0 THEN py0[source]
    ELSE IF v = "tree_logic" THEN 0
    ELSE IF source \in DOMAIN py THEN py[source]
    ELSE 0

\* bounds whose maxY_node is taken from d.x
computeBoundsMaxYFromX(nodes) ==
    IF nodes = {} THEN [minX |-> 0, maxX |-> 0, minY |-> 0, maxY |-> 0]
    ELSE [minX |-> SetMin({r.x : r \in nodes}), maxX |-> SetMax({r.x : r \in nodes}),
          minY |-> SetMin({r.y : r \in nodes}), maxY |-> SetMax({r.x : r \in nodes})]

\* minX_node, maxX_node, minY_node, maxY_node over the laid-out nodes (each
\* with its x and y); all 0 when there are no nodes
computeBounds(nodes) ==
    IF nodes = {} THEN [minX |-> 0, maxX |-> 0, minY |-> 0, maxY |-> 0]
    ELSE [minX |-> SetMin({r.x : r \in nodes}), maxX |-> SetMax({r.x : r \in nodes}),
          minY |-> SetMin({r.y : r \in nodes}), maxY |-> SetMax({r.y : r \in nodes})]

\* the field map f with the fields of the pairs <<node, value>> of w written
assign(f, w) ==
    [m \in DOMAIN f \cup {p[1] : p \in w} |->
        IF \E p \in w : p[1] = m THEN (CHOOSE p \in w : p[1] = m)[2] ELSE f[m]]

\* an updateTree that ends without stashing the positions
stashSkipped(p0, w) == p0

\* nodes.forEach(d_node => { d_node.x0 = d_node.x; d_node.y0 = d_node.y; }):
\* the previous positions p0 with those of the laid-out nodes, w, written
stashPositions(p0, w) == assign(p0, w)

\* svgWidthRequired / requiredSvgWidth
svgWidthRequired(v, b) == (b.maxY - b.minY) + margin(v).left + margin(v).right + buffer(v).w
\* svgHeightRequired / requiredSvgHeight
svgHeightRequired(v, b) == (b.maxX - b.minX) + margin(v).top + margin(v).bottom + buffer(v).h

\* an <svg> sized to the required size alone, without the Math.max floor
svgSizeUnfloored(v, minW, b) ==
    [width |-> svgWidthRequired(v, b), height |-> svgHeightRequired(v, b)]

\* the width and height attributes updateTree gives the <svg>
svgSize(v, minW, b) ==
    [width  |-> Max(minW, svgWidthRequired(v, b)),
     height |-> Max(initialHeight(v), svgHeightRequired(v, b))]

\* the transform of the main <g> after updateTree: part_000 re-anchors it
\* at the bounds, tree_logic leaves it as it is
groupTransform(v, old, b) ==
    IF v = "part_000" THEN <<margin(v).left - b.minY, margin(v).top - b.minX, 1>>
    ELSE old

-----------------------------------------------------------------------------
(* updateTree: the node data join *)

\* a key function without the d.id || guard: d.id = d.data.id || `node-${++nodeIndex}`
keyReassigned(st, k, d) ==
    IF TruthyStr(Docs[k].rid[d]) THEN [st EXCEPT !.id[d] = Docs[k].rid[d]]
    ELSE [id |-> [st.id EXCEPT ![d] = "node-" \o ToString(st.nodeIndex + 1)],
          nodeIndex |-> st.nodeIndex + 1]

\* the key function d => d.id || (d.id = d.data.id || `node-${++nodeIndex}`)
\* applied to node d; st = [id, nodeIndex]
key(st, k, d) ==
    IF TruthyStr(st.id[d]) THEN st
    ELSE IF TruthyStr(Docs[k].rid[d]) THEN [st EXCEPT !.id[d] = Docs[k].rid[d]]
    ELSE [id |-> [st.id EXCEPT ![d] = "node-" \o ToString(st.nodeIndex + 1)],
          nodeIndex |-> st.nodeIndex + 1]

RECURSIVE keyEach(_, _, _)
\* the key function over the data, in order
keyEach(st, k, data) ==
    IF data = <<>> THEN st
    ELSE keyEach(key(st, k, Head(data)), k, Tail(data))

\* bindKey of selection.data(data, key): for each datum the index of the
\* element it updates (0: the datum enters).  gkeys are the keys of the
\* elements of the group, dkeys those of the data.  The first element of a
\* key owns it; the first datum of a key takes the element.
bindKey(gkeys, dkeys) ==
    [i \in DOMAIN dkeys |->
        IF (\E g \in DOMAIN gkeys : gkeys[g] = dkeys[i])
           /\ ~(\E i2 \in 1..(i - 1) : dkeys[i2] = dkeys[i])
        THEN SetMin({g \in DOMAIN gkeys : gkeys[g] = dkeys[i]})
        ELSE 0]

\* the following update element an entering datum is inserted before
\* (0: appended at the end of the parent)
nextOf(update, i) ==
    IF \E i1 \in (i + 1)..Len(update) : update[i1] # 0
    THEN update[SetMin({i1 \in (i + 1)..Len(update) : update[i1] # 0})]
    ELSE 0

\* no start or end position other than the element's own
NoAnchor == <<>>

RECURSIVE flatten(_)
flatten(ss) == IF ss = <<>> THEN <<>> ELSE Head(ss) \o flatten(Tail(ss))

\* an entered element: appended with r = 1e-6, then r = 7 set with the
\* update selection, and a transition to its position started
\* it starts at the position at: translate(source.y0, source.x0)
entered(d, at) == [datum |-> d, tr |-> "update", circle |-> "full", anchor |-> at]

\* an update that starts no transition on an element of the update
\* selection, so that an exit transition running on it runs on to its remove()
updatedWithoutTransition(e, d) ==
    [datum |-> d, tr |-> IF e.tr = "exit" THEN "exit" ELSE "update",
     circle |-> IF e.circle \in {"shrink", "linger"} THEN e.circle ELSE "full",
     anchor |-> IF e.tr = "exit" THEN e.anchor ELSE NoAnchor]

\* an element of the update selection: bound to datum d, r = 7 set (a shrink
\* transition still running on its circle keeps running and overrides it),
\* a transition to its position replaces the one running on it
updated(e, d) ==
    [datum |-> d, tr |-> "update",
     circle |-> IF e.circle \in {"shrink", "linger"} THEN "linger" ELSE "full",
     anchor |-> NoAnchor]

\* an element of the exit selection: a transition to the position at,
\* translate(source.y, source.x), that ends in remove(), and a shrink
\* transition on its circle and text
exited(e, at) == [datum |-> e.datum, tr |-> "exit", circle |-> "shrink", anchor |-> at]

\* the g.node elements after the join of group with data (keys from ids);
\* entering elements start at enterAt, exiting ones are sent to exitAt
joinNodes(group, data, ids, enterAt, exitAt) ==
    LET gkeys == [g \in DOMAIN group |-> ids[group[g].datum]]
        dkeys == [i \in DOMAIN data |-> ids[data[i]]]
        update == bindKey(gkeys, dkeys)
        entering(nx) == SelectSeq([i \in DOMAIN data |-> IF update[i] = 0 /\ nextOf(update, i) = nx
                                                         THEN <<entered(data[i], enterAt)>> ELSE <<>>],
                                  LAMBDA e : e # <<>>)
        old(g) == IF \E i \in DOMAIN data : update[i] = g
                  THEN updated(group[g], data[CHOOSE i \in DOMAIN data : update[i] = g])
                  ELSE exited(group[g], exitAt)
    IN flatten([g \in DOMAIN group |-> flatten(entering(g)) \o <<old(g)>>]) \o flatten(entering(0))

\* treeDataLayout.links() that holds an edge into the root as well
linksWithRoot(ch) == descendants(ch)

\* treeDataLayout.links(): one link per node below the root, from its
\* parent to it, in the order of descendants(); a link is named by its target
links(ch) == Tail(descendants(ch))

\* a path.link element: entered at the position at (diagonal(o, o) with o
\* the source's previous position), updated, or sent to the position at
\* (o the source's position) and removed
linkEntered(t, at) == [target |-> t, tr |-> "update", anchor |-> at]
linkUpdated(e, t) == [target |-> t, tr |-> "update", anchor |-> NoAnchor]
linkExited(e, at) == [target |-> e.target, tr |-> "exit", anchor |-> at]

\* the path.link elements after the join of group with data, keyed by
\* d.target.id; entering paths are inserted before the first g, after the
\* paths in place
joinLinks(group, data, ids, enterAt, exitAt) ==
    LET gkeys == [g \in DOMAIN group |-> ids[group[g].target]]
        dkeys == [i \in DOMAIN data |-> ids[data[i]]]
        update == bindKey(gkeys, dkeys)
        old(g) == IF \E i \in DOMAIN data : update[i] = g
                  THEN linkUpdated(group[g], data[CHOOSE i \in DOMAIN data : update[i] = g])
                  ELSE linkExited(group[g], exitAt)
    IN [g \in DOMAIN group |-> old(g)]
       \o flatten([i \in DOMAIN data |->
                     IF update[i] = 0 THEN <<linkEntered(data[i], enterAt)>> ELSE <<>>])

-----------------------------------------------------------------------------
(* The state machine *)

\* the number of node activations a run of the model handles: on a document
\* of at most five records, and on a larger one
MaxActivations == 4
MaxActivationsLarge == 1
activationBudget(k) == IF Docs[k].n <= 5 THEN MaxActivations ELSE MaxActivationsLarge

\* no record handed over yet, no call made yet
noData ==
    [name |-> Undef, has_details |-> FALSE, has_breakdown |-> FALSE, origin_breakdown |-> <<>>,
     year_info |-> Undef, raw |-> Undef, origin |-> Undef,
     has_origin_mix |-> FALSE, origin_mix |-> <<>>, countryOfOrigin |-> Undef]
noOutcome == [call |-> "none", node |-> 0, dominant |-> "", class |-> "", threw |-> FALSE]

Identity == <<0, 0, 1>>
\* the transforms a zoom or pan gesture produces
ZoomTransforms == {Identity, <<60, -40, 2>>}

\* the page before the fetch settles
treeInit ==
    /\ variant \in Variants
    /\ \E w \in ClientWidths : calculatedInitialWidth = InitialWidth(variant, w)
    /\ fetch = "pending"
    /\ container = "svg"
    /\ errorCalls = 0
    /\ doc = 0
    /\ children = <<>>
    /\ _children = <<>>
    /\ id = <<>>
    /\ nodeIndex = 0
    /\ x = <<>> /\ y = <<>> /\ x0 = <<>> /\ y0 = <<>>
    /\ bounds = [minX |-> 0, maxX |-> 0, minY |-> 0, maxY |-> 0]
    /\ svgWidth = calculatedInitialWidth
    /\ svgHeight = initialHeight(variant)
    /\ gTransform = <<margin(variant).left, margin(variant).top, 1>>
    /\ zoomTransform = Identity
    /\ rendered = <<>>
    /\ renderedLinks = <<>>
    /\ panel = emptyPanel
    /\ activations = 0

Init ==
    /\ treeInit
    /\ record = noData
    /\ outcome = noOutcome

\* displayError(message)
displayError ==
    /\ container' = "error"
    /\ errorCalls' = errorCalls + 1

\* an anchor with the two coordinates the other way round
anchorSwapped(px, py, source) == <<px[source], py[source]>>

\* translate(${source.y0},${source.x0}): where entering items start, from
\* the previous positions px, py after the defaults of updateTree
enterAnchor(px, py, source) == <<py[source], px[source]>>

\* translate(${source.y},${source.x}): where exiting items are sent, from
\* the positions px, py after the layout
exitAnchor(px, py, source) == <<py[source], px[source]>>

\* updateTree(source) on the tree T = [children, _children] of document k,
\* with ids the nodes' d.id and px0, py0 their previous positions at the call
updateTree(T, k, source, ids, px0, py0) ==
    LET v == variant
        sx0 == sourceX0(v, x, px0, source)
        sy0 == sourceY0(v, y, py0, source)
        ch == [m \in NodesOf(k) |-> ListOf(T.children[m])]
        laid == treeLayout(ch, nodeSize(v))
        nodes == descendants(ch)
        b == computeBounds(laid)
        size == svgSize(v, calculatedInitialWidth, b)
        keyed == keyEach([id |-> ids, nodeIndex |-> nodeIndex], k, nodes)
    IN /\ x' = assign(x, {<<r.n, r.x>> : r \in laid})
       /\ y' = assign(y, {<<r.n, r.y>> : r \in laid})
       /\ bounds' = b
       /\ svgWidth' = size.width
       /\ svgHeight' = size.height
       /\ gTransform' = groupTransform(v, gTransform, b)
       /\ id' = keyed.id
       /\ nodeIndex' = keyed.nodeIndex
       /\ rendered' = joinNodes(rendered, nodes, keyed.id,
                                enterAnchor(assign(px0, {<<source, sx0>>}),
                                            assign(py0, {<<source, sy0>>}), source),
                                exitAnchor(assign(x, {<<r.n, r.x>> : r \in laid}),
                                           assign(y, {<<r.n, r.y>> : r \in laid}), source))
       /\ renderedLinks' = joinLinks(renderedLinks, links(ch), keyed.id,
                                     enterAnchor(assign(px0, {<<source, sx0>>}),
                                                 assign(py0, {<<source, sy0>>}), source),
                                     exitAnchor(assign(x, {<<r.n, r.x>> : r \in laid}),
                                                assign(y, {<<r.n, r.y>> : r \in laid}), source))
       /\ x0' = stashPositions(assign(px0, {<<source, sx0>>}), {<<r.n, r.x>> : r \in laid})
       /\ y0' = stashPositions(assign(py0, {<<source, sy0>>}), {<<r.n, r.y>> : r \in laid})

\* the shape check of the load handler: !familyData || (!familyData.name && !familyData.id)
shapeError(k) ==
    IF Docs[k].n = 0 THEN TRUE
    ELSE ~TruthyStr(Docs[k].rname[rootNodeD3]) /\ ~TruthyStr(Docs[k].rid[rootNodeD3])

\* a rejection with no catch handler: nothing is reported
fetchRejectedUnhandled ==
    /\ fetch = "pending"
    /\ fetch' = "rejected"
    /\ UNCHANGED <<record, outcome, variant, calculatedInitialWidth, container, errorCalls, doc, children,
                   _children, id, nodeIndex, x, y, x0, y0, bounds, svgWidth, svgHeight,
                   gTransform, zoomTransform, rendered, renderedLinks, panel, activations>>

\* d3.json(...) rejects (network or parse failure): the catch handler
fetchRejected ==
    /\ fetch = "pending"
    /\ fetch' = "rejected"
    /\ displayError
    /\ UNCHANGED <<record, outcome, variant, calculatedInitialWidth, doc, children, _children, id, nodeIndex,
                   x, y, x0, y0, bounds, svgWidth, svgHeight, gTransform, zoomTransform,
                   rendered, renderedLinks, panel, activations>>

\* d3.json(...) resolves with document k whose shape check fails
loadShapeError(k) ==
    /\ fetch = "pending"
    /\ shapeError(k)
    /\ fetch' = "resolved"
    /\ doc' = k
    /\ displayError
    /\ UNCHANGED <<record, outcome, variant, calculatedInitialWidth, children, _children, id, nodeIndex,
                   x, y, x0, y0, bounds, svgWidth, svgHeight, gTransform, zoomTransform,
                   rendered, renderedLinks, panel, activations>>

\* d3.json(...) resolves with document k: hierarchy, initial collapse, first updateTree
loadDocument(k) ==
    /\ fetch = "pending"
    /\ ~shapeError(k)
    /\ fetch' = "resolved"
    /\ doc' = k
    /\ LET T == initialCollapse(hierarchy(k))
       IN /\ children' = T.children
          /\ _children' = T._children
          /\ updateTree(T, k, rootNodeD3, [m \in NodesOf(k) |-> Undef],
                        [m \in {rootNodeD3} |-> rootX0(variant)], [m \in {rootNodeD3} |-> 0])
    /\ UNCHANGED <<record, outcome, variant, calculatedInitialWidth, container, errorCalls, zoomTransform, panel,
                   activations>>

\* the click handler of the g.node element at DOM index e
click(e) ==
    /\ fetch = "resolved" /\ container = "svg"
    /\ e \in DOMAIN rendered
    /\ activations < activationBudget(doc)
    /\ activations' = activations + 1
    /\ LET d == rendered[e].datum
           T == toggleChildren([children |-> children, _children |-> _children], d)
       IN /\ children' = T.children
          /\ _children' = T._children
          /\ updateTree(T, doc, d, id, x0, y0)
          /\ record' = recordOf(doc, d)
          /\ panel' = displayDetailsData(variant, recordOf(doc, d), panel).panel
          /\ outcome' = [noOutcome EXCEPT !.call = "click", !.node = d,
                                          !.threw = displayDetailsData(variant, recordOf(doc, d), panel).threw]
    /\ UNCHANGED <<variant, calculatedInitialWidth, fetch, container, errorCalls, doc, zoomTransform>>

\* a shrink transition left running on the circle of a re-bound element ends
lingerEnd(e) ==
    /\ container = "svg"
    /\ e \in DOMAIN rendered
    /\ rendered[e].circle = "linger"
    /\ rendered' = [rendered EXCEPT ![e].circle = "zero"]
    /\ UNCHANGED renderedLinks
    /\ UNCHANGED <<record, outcome, variant, calculatedInitialWidth, fetch, container, errorCalls, doc,
                   children, _children, id, nodeIndex, x, y, x0, y0, bounds,
                   svgWidth, svgHeight, gTransform, zoomTransform, panel, activations>>

\* the element e after the transitions of the last updateTree ended
settled(e) == [e EXCEPT !.tr = "none", !.anchor = NoAnchor]

\* the transitions started by the last updateTree end (all have the same
\* duration; the older ones left on circles have ended before): exited
\* elements are removed
transitionsEnd ==
    /\ container = "svg"
    /\ \E e \in DOMAIN rendered : rendered[e].tr # "none"
    /\ \A e \in DOMAIN rendered : rendered[e].circle # "linger"
    /\ rendered' = [e \in DOMAIN SelectSeq(rendered, LAMBDA el : el.tr # "exit") |->
                       settled(SelectSeq(rendered, LAMBDA el : el.tr # "exit")[e])]
    /\ renderedLinks' = [e \in DOMAIN SelectSeq(renderedLinks, LAMBDA el : el.tr # "exit") |->
                            settled(SelectSeq(renderedLinks, LAMBDA el : el.tr # "exit")[e])]
    /\ UNCHANGED <<record, outcome, variant, calculatedInitialWidth, fetch, container, errorCalls, doc,
                   children, _children, id, nodeIndex, x, y, x0, y0, bounds,
                   svgWidth, svgHeight, gTransform, zoomTransform, panel, activations>>

\* a zoom or pan gesture on the <svg> (tree_logic only): the zoom handler
zoom(t) ==
    /\ variant = "tree_logic"
    /\ container = "svg"
    /\ zoomTransform # t
    /\ zoomTransform' = t
    /\ gTransform' = t
    /\ UNCHANGED <<record, outcome, variant, calculatedInitialWidth, fetch, container, errorCalls, doc,
                   children, _children, id, nodeIndex, x, y, x0, y0, bounds,
                   svgWidth, svgHeight, rendered, renderedLinks, panel, activations>>

Next ==
    \/ fetchRejected
    \/ \E k \in DOMAIN Docs : loadShapeError(k)
    \/ \E k \in DOMAIN Docs : loadDocument(k)
    \/ \E e \in 1..Len(rendered) : click(e)
    \/ \E e \in 1..Len(rendered) : lingerEnd(e)
    \/ transitionsEnd
    \/ \E t \in ZoomTransforms : zoom(t)

Spec == Init /\ [][Next]_vars

-----------------------------------------------------------------------------
(* The record functions on their own: the class callback of nodeEnter and   *)
(* displayDetails, applied to one record drawn from a bounded set           *)

\* the most entries an origin_mix and an origin_breakdown of the model have
MaxMixLen == 3
MaxBreakdownLen == 3

\* keys and weights (in 1/10000) of the origin_mix mappings
MixKeys == {"Italy", "Wales", "Unknown", "unknown"}
MixWeights == {0, 3000, 5000}
\* keys and weights (in 1/10000) of the origin_breakdown mappings: 10 is
\* the 0.001 of the panel's threshold
BreakdownKeys == {"Italy", "Wales", "Unknown"}
BreakdownWeights == {5, 10, 11, 5000}
\* data.countryOfOrigin: absent, empty, a country
Fallbacks == {Undef, "", "USA"}

RECURSIVE Mappings(_, _, _)
\* the mappings of at most n entries, each as its entries in iteration
\* order (an object holds a key once)
Mappings(keys, weights, n) ==
    IF n = 0 THEN {<<>>}
    ELSE LET shorter == Mappings(keys, weights, n - 1)
         IN shorter \cup
            {Append(t[1], <<t[2], t[3]>>) :
                t \in {u \in shorter \X keys \X weights :
                          /\ Len(u[1]) = n - 1
                          /\ \A i \in DOMAIN u[1] : u[1][i][1] # u[2]}}

\* records that differ in origin_mix and countryOfOrigin
OriginInputs ==
    {[noData EXCEPT !.name = "Ann", !.has_origin_mix = TRUE, !.origin_mix = m,
                    !.countryOfOrigin = f] :
        m \in Mappings(MixKeys, MixWeights, MaxMixLen), f \in Fallbacks}
    \cup {[noData EXCEPT !.name = "Ann", !.countryOfOrigin = f] : f \in Fallbacks}

\* records that differ in details.origin_breakdown
BreakdownInputs ==
    {[noData EXCEPT !.name = "Ann", !.has_details = TRUE, !.has_breakdown = TRUE,
                    !.origin_breakdown = m] :
        m \in Mappings(BreakdownKeys, BreakdownWeights, MaxBreakdownLen)}
    \cup {[noData EXCEPT !.name = "Ann", !.has_details = TRUE]}

RecordInit ==
    /\ treeInit
    /\ record \in OriginInputs \cup BreakdownInputs
    /\ outcome = noOutcome

\* the class callback of nodeEnter runs on the record
classify ==
    /\ outcome.call = "none"
    /\ outcome' = [noOutcome EXCEPT
                      !.call = "class",
                      !.dominant = getDominantOrigin(record.has_origin_mix, record.origin_mix,
                                                     record.countryOfOrigin),
                      !.class = countryClass(variant, record)]
    /\ UNCHANGED <<record, variant, calculatedInitialWidth, fetch, container, errorCalls, doc,
                   children, _children, id, nodeIndex, x, y, x0, y0, bounds, svgWidth,
                   svgHeight, gTransform, zoomTransform, rendered, renderedLinks, panel, activations>>

\* displayDetails runs on the record
showDetails ==
    /\ outcome.call = "none"
    /\ panel' = displayDetailsData(variant, record, panel).panel
    /\ outcome' = [noOutcome EXCEPT !.call = "details",
                                    !.threw = displayDetailsData(variant, record, panel).threw]
    /\ UNCHANGED <<record, variant, calculatedInitialWidth, fetch, container, errorCalls, doc,
                   children, _children, id, nodeIndex, x, y, x0, y0, bounds, svgWidth,
                   svgHeight, gTransform, zoomTransform, rendered, renderedLinks, activations>>

RecordNext == classify \/ showDetails

RecordSpec == RecordInit /\ [][RecordNext]_vars

-----------------------------------------------------------------------------
(* Properties *)

\* the tree was loaded and is on the page
Loaded == fetch = "resolved" /\ container = "svg"

\* the nodes reachable from node d through the visible child lists of chv
RECURSIVE reach(_, _)
reach(chv, d) == {d} \cup UNION {reach(chv, ListOf(chv[d])[i]) : i \in DOMAIN ListOf(chv[d])}

\* the visible nodes: those reachable from the root through visible lists
visible(chv) == reach(chv, rootNodeD3)
visibleNodes == visible(children)

\* a record's parent and depth in document k
parentOf(k, n) == CHOOSE p \in NodesOf(k) : n \in Range(Docs[k].kids[p])
RECURSIVE depth(_, _)
depth(k, n) == IF n = rootNodeD3 THEN 0 ELSE 1 + depth(k, parentOf(k, n))

\* the load handler has run and no node was activated since
AfterInitialCollapse == Loaded /\ activations = 0

\* C1 as stated: right after the initial collapse the visible nodes are the
\* root and its direct children only, 1 + |root.children| of them
C1_OnlyRootAndChildrenVisible ==
    AfterInitialCollapse =>
        Cardinality(visibleNodes) = 1 + Len(Docs[doc].kids[rootNodeD3])

\* C1 amended: right after the initial collapse the visible nodes are the
\* root, its children and its grandchildren (three generations); every
\* node of a deeper generation is held in its parent's hidden list and not
\* in its parent's visible list
C1_ThreeGenerationsVisible ==
    AfterInitialCollapse =>
        /\ visibleNodes = {n \in NodesOf(doc) : depth(doc, n) <= 2}
        /\ \A n \in NodesOf(doc) :
              depth(doc, n) >= 3 =>
                  /\ n \in Range(ListOf(_children[parentOf(doc, n)]))
                  /\ n \notin Range(ListOf(children[parentOf(doc, n)]))

C1_Witness ==
    /\ AfterInitialCollapse
    /\ \E n \in NodesOf(doc) : depth(doc, n) = 3
    /\ Cardinality(visibleNodes) > 1 + Len(Docs[doc].kids[rootNodeD3])

\* C2: in every reachable tree state, toggleChildren applied twice to any
\* node gives back the visible and hidden child lists of every node
C2_ToggleTwiceRestores ==
    Loaded =>
        \A d \in NodesOf(doc) :
            LET T == [children |-> children, _children |-> _children]
                T2 == toggleChildren(toggleChildren(T, d), d)
            IN \A m \in NodesOf(doc) :
                  /\ ListOf(T2.children[m]) = ListOf(children[m])
                  /\ ListOf(T2._children[m]) = ListOf(_children[m])

\* an expanded node, a collapsed node and a toggled leaf, after activations
C2_Witness ==
    /\ Loaded
    /\ activations >= 2
    /\ \E a, b, c \in NodesOf(doc) :
          /\ Truthy(children[a])
          /\ Truthy(_children[b]) /\ children[b] = NULL
          /\ children[c] = NULL /\ _children[c] = NULL

\* C3: an identifier, once assigned, is never changed by a later step
C3_IdentifierStable ==
    [][\A n \in DOMAIN id : TruthyStr(id[n]) => id'[n] = id[n]]_vars

\* a node with a synthetic identifier that is hidden again after activations
C3_Witness ==
    /\ Loaded
    /\ activations >= 2
    /\ \E n \in NodesOf(doc) :
          /\ TruthyStr(id[n])
          /\ ~TruthyStr(Docs[doc].rid[n])
          /\ depth(doc, n) = 3
          /\ n \notin visibleNodes

\* the step activates the collapsed node d (its hidden list becomes its visible list)
Expands(d) ==
    /\ activations' = activations + 1
    /\ Truthy(_children[d]) /\ ~Truthy(children[d])
    /\ Truthy(children'[d])

\* C4 as stated: activating a collapsed node adds exactly its direct
\* children to the visible set
C4_ExpandAddsDirectChildren ==
    [][\A d \in NodesOf(doc) :
          Expands(d) => visible(children') = visibleNodes \cup Range(ListOf(_children[d]))]_vars

\* C4 amended: activating a collapsed node that is itself visible adds
\* exactly the nodes reachable from its hidden children through the visible
\* lists as they were (each direct child, and the visible descendants of a
\* child that was left expanded); activating a collapsed node that is not
\* visible leaves the visible set as it was; no node leaves the visible set
C4_ExpandAddsHiddenSubtree ==
    [][\A d \in NodesOf(doc) :
          Expands(d) =>
              visible(children') =
                  visibleNodes \cup
                  (IF d \in visibleNodes
                   THEN UNION {reach(children, c) : c \in Range(ListOf(_children[d]))}
                   ELSE {})]_vars

\* a node collapsed and expanded again whose child is expanded
C4_Witness ==
    /\ Loaded
    /\ \E d \in visibleNodes :
          /\ _children[d] = NULL /\ Truthy(children[d])
          /\ \E c \in Range(ListOf(children[d])) : Truthy(children[c])
    /\ \E n \in visibleNodes : depth(doc, n) = 3

\* the step is a redraw: updateTree ran, at load or for an activation
Redraw ==
    /\ fetch' = "resolved" /\ container' = "svg"
    /\ (fetch = "pending" \/ activations' = activations + 1)

\* C5 as stated: every redraw sets the transform of the rendering group to
\* (leftMargin - minY, topMargin - minX) of the fresh bounds, and no visible
\* node then has a negative coordinate on the canvas
C5_RedrawAnchorsGroupAtBounds ==
    [][Redraw =>
          /\ gTransform' = <<margin(variant).left - bounds'.minY,
                             margin(variant).top - bounds'.minX, 1>>
          /\ \A n \in visible(children') :
                gTransform'[1] + y'[n] >= 0 /\ gTransform'[2] + x'[n] >= 0]_vars

\* C6: the bounds of the last layout pass contain every visible node
C6_BoundsContainVisible ==
    Loaded =>
        \A n \in visibleNodes :
            /\ n \in DOMAIN x /\ n \in DOMAIN y
            /\ bounds.minX <= x[n] /\ x[n] <= bounds.maxX
            /\ bounds.minY <= y[n] /\ y[n] <= bounds.maxY

\* the bounds have shrunk again: a node laid out earlier and hidden since
\* lies outside them, and some visible node lies above the root
C6_Witness ==
    /\ Loaded
    /\ bounds.minX < 0
    /\ \E n \in DOMAIN y : n \notin visibleNodes /\ y[n] > bounds.maxY

\* the extent of the visible nodes
spanX == SetMax({x[n] : n \in visibleNodes}) - SetMin({x[n] : n \in visibleNodes})
spanY == SetMax({y[n] : n \in visibleNodes}) - SetMin({y[n] : n \in visibleNodes})

\* C7: after every redraw the width of the canvas is the larger of the
\* minimum width and (maxY - minY) + left margin + right margin + buffer, its
\* height the larger of the minimum height and (maxX - minX) + top margin +
\* bottom margin + buffer, and neither is below the minimum
C7_CanvasSize ==
    Loaded =>
        /\ svgWidth = Max(calculatedInitialWidth,
                          spanY + margin(variant).left + margin(variant).right + buffer(variant).w)
        /\ svgHeight = Max(initialHeight(variant),
                           spanX + margin(variant).top + margin(variant).bottom + buffer(variant).h)
        /\ svgWidth >= MinWidth(variant) /\ svgWidth >= calculatedInitialWidth
        /\ svgHeight >= initialHeight(variant)

\* a canvas grown beyond the minimum in both directions
C7_Witness ==
    /\ Loaded
    /\ svgWidth > calculatedInitialWidth
    /\ svgHeight > initialHeight(variant)

\* a canvas back at its minimum size after an activation collapsed the tree
C7_WitnessShrunk ==
    /\ Loaded
    /\ activations >= 1
    /\ svgWidth = calculatedInitialWidth
    /\ svgHeight = initialHeight(variant)

\* no transition is running on any element
Settled ==
    \A e \in DOMAIN rendered : rendered[e].tr = "none" /\ rendered[e].circle \in {"full", "zero"}

\* C8: once every transition has ended, the rendered elements are exactly
\* one per visible node, whatever activations arrived while transitions ran
C8_SettledRenderedIsVisible ==
    (Loaded /\ Settled) =>
        /\ {rendered[e].datum : e \in DOMAIN rendered} = visibleNodes
        /\ Len(rendered) = Cardinality(visibleNodes)

\* every transition has ended and an element carries the trace of an
\* activation that re-bound it while it was exiting (its circle ended shrunk)
C8_Witness ==
    /\ Loaded /\ Settled
    /\ activations >= 2
    /\ \E e \in DOMAIN rendered : rendered[e].circle = "zero"

\* C9: a rejected fetch reports one error and is terminal: displayError has
\* run once, the message has replaced the drawing surface, nothing was laid
\* out or rendered, and no later step changes that
C9_FetchFailureTerminal ==
    [][/\ fetch' = "rejected" =>
             /\ errorCalls' = 1 /\ container' = "error"
             /\ rendered' = <<>> /\ x' = <<>> /\ y' = <<>> /\ id' = <<>>
             /\ doc' = 0 /\ activations' = 0
       /\ fetch = "rejected" => fetch' = "rejected"]_vars

C9_Witness == fetch = "rejected" /\ errorCalls = 1 /\ container = "error"

\* the root record of document k has a name or an id
rootHasNameOrId(k) ==
    IF Docs[k].n = 0 THEN FALSE
    ELSE Docs[k].rname[rootNodeD3] # Undef \/ Docs[k].rid[rootNodeD3] # Undef

\* C10 as stated: a parsed document whose root has neither name nor id ends
\* as a fetch failure does (one error message, nothing built or laid out),
\* and a root with a name or an id always reaches the first layout pass
C10_ShapeCheck ==
    fetch = "resolved" =>
        IF rootHasNameOrId(doc)
        THEN container = "svg" /\ errorCalls = 0 /\ rootNodeD3 \in DOMAIN x /\ rendered # <<>>
        ELSE container = "error" /\ errorCalls = 1 /\ rendered = <<>> /\ x = <<>> /\ children = <<>>

-----------------------------------------------------------------------------
(* Origin classification and the breakdown list *)

\* the entries of the record's origin_mix whose name is not "unknown" in any case
knownEntries == {i \in DOMAIN record.origin_mix : toLowerCase(record.origin_mix[i][1]) # "unknown"}

\* the highest weight among them
topWeight == SetMax({record.origin_mix[i][2] : i \in knownEntries})

\* the class callback has run on a record whose origin_mix has a known entry
ClassifiedKnown ==
    /\ outcome.call = "class"
    /\ record.has_origin_mix
    /\ knownEntries # {}

\* C11 as stated: for an origin_mix with at least one entry not named
\* "unknown", getDominantOrigin returns the name of an entry of the highest
\* weight among those, the smallest such name when several share it,
\* whatever the iteration order and also when that weight is 0
C11_DominantIsHeaviestKnown ==
    ClassifiedKnown =>
        \E i \in knownEntries :
            /\ record.origin_mix[i][2] = topWeight
            /\ \A j \in knownEntries :
                  record.origin_mix[j][2] = topWeight
                      => localeCompare(record.origin_mix[i][1], record.origin_mix[j][1]) <= 0
            /\ outcome.dominant = record.origin_mix[i][1]

\* the class callback has run on a record with no known entry: origin_mix
\* absent, empty, or holding entries named "unknown" only
ClassifiedUnknown ==
    /\ outcome.call = "class"
    /\ (~record.has_origin_mix \/ knownEntries = {})

\* the record's origin_mix has the key "Unknown" with a weight of 0.5 or more
UnknownHalf ==
    /\ record.has_origin_mix
    /\ \E i \in DOMAIN record.origin_mix :
          record.origin_mix[i][1] = "Unknown" /\ record.origin_mix[i][2] >= 5000

\* C12: with no non-unknown entry and an "Unknown" weight >= 0.5 the result
\* is "unknown" even if a fallback country is given; with no non-unknown
\* entry and no such weight, or an empty or absent origin_mix, it is the
\* fallback country when one is given (a non-empty string) and "unknown"
\* otherwise
C12_FallbackChain ==
    ClassifiedUnknown =>
        IF UnknownHalf
        THEN outcome.dominant = "unknown"
        ELSE outcome.dominant = (IF record.countryOfOrigin \notin {Undef, ""}
                                 THEN record.countryOfOrigin ELSE "unknown")

\* an Unknown weight of a half beat a given fallback country
C12_Witness ==
    /\ ClassifiedUnknown /\ UnknownHalf
    /\ record.countryOfOrigin = "USA"
    /\ outcome.dominant = "unknown"

\* the fallback country was returned for a mix of unknown entries below a half
C12_WitnessFallback ==
    /\ ClassifiedUnknown /\ ~UnknownHalf
    /\ record.has_origin_mix /\ record.origin_mix # <<>>
    /\ outcome.dominant = "USA"

\* displayDetails of tree_logic.js has run on a record with a non-empty
\* origin_breakdown
BreakdownShown ==
    /\ outcome.call = "details"
    /\ variant = "tree_logic"
    /\ record.has_details /\ record.has_breakdown
    /\ record.origin_breakdown # <<>>

\* the <li> entries of the panel's breakdown list, in order
shownList == panel.origin[2]

\* the list holds exactly the entries of the mapping with weight > 0.001
ShownAreAboveThreshold ==
    /\ panel.origin[1] = "ul"
    /\ Range(shownList) = {e \in Range(record.origin_breakdown) : e[2] > 10}
    /\ Len(shownList) = Cardinality(Range(shownList))

\* C13 as stated: the breakdown list holds exactly the entries with weight
\* > 0.001, in strictly descending order of weight
C13_ListStrictlyDescending ==
    BreakdownShown =>
        /\ ShownAreAboveThreshold
        /\ \A i, j \in DOMAIN shownList : i < j => shownList[i][2] > shownList[j][2]

\* C13 amended: the breakdown list holds exactly the entries with weight
\* > 0.001, in descending order of weight, entries of equal weight both
\* listed, in the iteration order of the mapping
C13_ListDescendingTiesInOrder ==
    BreakdownShown =>
        /\ ShownAreAboveThreshold
        /\ \A i, j \in DOMAIN shownList :
              i < j =>
                  \/ shownList[i][2] > shownList[j][2]
                  \/ /\ shownList[i][2] = shownList[j][2]
                     /\ \E a, b \in DOMAIN record.origin_breakdown :
                           /\ a < b
                           /\ record.origin_breakdown[a] = shownList[i]
                           /\ record.origin_breakdown[b] = shownList[j]

\* a list of two entries of equal weight, with an entry of exactly 0.001 left out
C13_Witness ==
    /\ BreakdownShown
    /\ Len(shownList) = 2
    /\ shownList[1][2] = shownList[2][2]
    /\ \E e \in Range(record.origin_breakdown) : e[2] = 10

-----------------------------------------------------------------------------
(* Activations *)

\* a node has been activated; outcome.node is the last one
Activated == outcome.call = "click"

\* C14: activating a node whose record lacks optional fields never ends in
\* an error: the handler runs through (nothing thrown, the drawing surface
\* still in place, the activation counted) and the panel shows the default
\* of each absent field: name "N/A", breakdown "N/A", year info "N/A", raw
\* text the name
C14_AbsentFieldsDegrade ==
    Activated =>
        /\ ~outcome.threw /\ container = "svg" /\ errorCalls = 0 /\ activations >= 1
        /\ record = recordOf(doc, outcome.node)
        /\ record.name = Undef => panel.name = "N/A"
        /\ (~record.has_details \/ (variant = "tree_logic" /\ ~record.has_breakdown)
               \/ (variant = "part_000" /\ record.origin = Undef))
              => panel.origin = <<"N/A", <<>>>>
        /\ (~record.has_details \/ record.year_info = Undef) => panel.year = "N/A"
        /\ (~record.has_details \/ record.raw = Undef)
              => panel.raw = (IF record.name = Undef THEN "" ELSE record.name)

\* a leaf without name and without details has been activated
C14_Witness ==
    /\ Activated
    /\ record.name = Undef /\ ~record.has_details
    /\ Docs[doc].kids[outcome.node] = <<>>
    /\ panel.name = "N/A" /\ panel.year = "N/A"

\* a record with details that lack year_info has been activated
C14_WitnessPartial ==
    /\ Activated
    /\ record.has_details /\ record.year_info = Undef
    /\ panel.year = "N/A"

-----------------------------------------------------------------------------
(* The collapse state of the nodes *)

\* C15: in every state after the load, each node has visible children and
\* no hidden ones, or hidden children and no visible ones, or neither; never
\* both, and the two lists together are the node's original child list
C15_OneCollapseState ==
    Loaded =>
        \A n \in NodesOf(doc) :
            /\ ~(Truthy(children[n]) /\ Truthy(_children[n]))
            /\ Truthy(children[n]) => ListOf(children[n]) # <<>>
            /\ Truthy(_children[n]) => ListOf(_children[n]) # <<>>
            /\ ListOf(children[n]) \o ListOf(_children[n]) = Docs[doc].kids[n]

\* after two activations or more the tree holds an expanded node, a
\* collapsed node and an activated leaf
C15_Witness ==
    /\ Loaded /\ activations >= 2
    /\ \E n \in NodesOf(doc) : Truthy(children[n])
    /\ \E n \in NodesOf(doc) : Truthy(_children[n])
    /\ \E n \in NodesOf(doc) : Docs[doc].kids[n] = <<>> /\ _children[n] = NULL

\* the step handles an activation
Activation == activations' = activations + 1

\* C16: an activation of node n changes the visible and hidden lists of n
\* only: those of every other node (ancestor, descendant, unrelated) are
\* the same after the step, so a node shown again has the collapse state
\* it had when it was hidden
C16_ToggleTouchesOneNode ==
    [][Activation =>
          \A m \in NodesOf(doc) :
              m # outcome'.node => children'[m] = children[m] /\ _children'[m] = _children[m]]_vars

\* a node has been expanded again and shows a child that is still collapsed
C16_Witness ==
    /\ Activated /\ activations >= 2
    /\ Truthy(children[outcome.node])
    /\ \E c \in Range(ListOf(children[outcome.node])) : Truthy(_children[c])

\* the collapse state of the tree
tree == [children |-> children, _children |-> _children]

RECURSIVE subtree(_, _)
\* the nodes of d's subtree, followed through visible and hidden lists
subtree(T, d) ==
    {d} \cup UNION {subtree(T, c) : c \in Range(ListOf(T.children[d]))
                                            \cup Range(ListOf(T._children[d]))}

\* C17: collapseRecursively(n), from any mix of expanded and collapsed
\* nodes below n, leaves no node of n's subtree with visible children,
\* keeps the set of nodes of the subtree, changes nothing when called a
\* second time, and changes nothing on a leaf
C17_CollapseRecursively ==
    Loaded =>
        \A n \in NodesOf(doc) :
            LET after == collapseRecursively(tree, n)
            IN /\ \A m \in subtree(after, n) : ~Truthy(after.children[m])
               /\ subtree(after, n) = subtree(tree, n)
               /\ collapseRecursively(after, n) = after
               /\ Docs[doc].kids[n] = <<>> => after = tree
               /\ \A m \in NodesOf(doc) \ subtree(tree, n) :
                     after.children[m] = tree.children[m] /\ after._children[m] = tree._children[m]

\* a collapsed node that hides an expanded child, which the call collapses
C17_Witness ==
    /\ Loaded
    /\ \E n \in NodesOf(doc) :
          /\ ~Truthy(children[n]) /\ Truthy(_children[n])
          /\ \E c \in Range(ListOf(_children[n])) : Truthy(children[c])
          /\ collapseRecursively(tree, n) # tree

\* C18: the initial collapse populates the hidden list of neither the root
\* nor any child of the root: right after it the root and each of its
\* children hold all their children in the visible list
C18_RootAndChildrenStayExpanded ==
    AfterInitialCollapse =>
        \A n \in {rootNodeD3} \cup Range(Docs[doc].kids[rootNodeD3]) :
            /\ ~Truthy(_children[n])
            /\ ListOf(children[n]) = Docs[doc].kids[n]

\* right after the initial collapse of a tree of four generations: a child
\* of the root shows its children, and a grandchild hides its own
C18_Witness ==
    /\ AfterInitialCollapse
    /\ \E c \in Range(Docs[doc].kids[rootNodeD3]) :
          /\ Truthy(children[c])
          /\ \E g \in Range(ListOf(children[c])) : Truthy(_children[g])

-----------------------------------------------------------------------------
(* The data join and the identifiers *)

\* the data of the redraw of this step: the visible nodes, in the order of
\* descendants()
joinData == descendants([m \in NodesOf(doc') |-> ListOf(children'[m])])

\* the identifiers of the elements rendered before the step, and of the data
renderedKeys == [g \in DOMAIN rendered |-> id'[rendered[g].datum]]
dataKeys == [i \in DOMAIN joinData |-> id'[joinData[i]]]

\* C19 as stated: in every redraw the join splits by identifier: a visible
\* node enters exactly when its identifier is not among those of the
\* elements rendered before, and is updated otherwise; a rendered element
\* exits exactly when its identifier is not among those of the visible
\* nodes, and is updated otherwise; one element is added per entering node
C19_JoinSplitsByIdentifier ==
    [][Redraw =>
          LET update == bindKey(renderedKeys, dataKeys)
              entering == {i \in DOMAIN joinData : update[i] = 0}
              exiting == {g \in DOMAIN rendered : \A i \in DOMAIN joinData : update[i] # g}
          IN /\ \A i \in DOMAIN joinData :
                    i \in entering <=> dataKeys[i] \notin Range(renderedKeys)
             /\ \A g \in DOMAIN rendered :
                    g \in exiting <=> renderedKeys[g] \notin Range(dataKeys)
             /\ Len(rendered') = Len(rendered) + Cardinality(entering)
             /\ Cardinality({e \in DOMAIN rendered' : rendered'[e].tr = "exit"})
                    = Cardinality(exiting)]_vars

\* C20 as stated: no two distinct nodes that have an identifier carry the
\* same one, whether it came from the record or from the counter
C20_IdentifiersUnique ==
    \A m, n \in DOMAIN id :
        (m # n /\ id[m] # Undef /\ id[n] # Undef) => id[m] # id[n]

-----------------------------------------------------------------------------
(* Positions, anchors and edges *)

\* C21: after every layout pass the previous position (x0, y0) of every
\* node that has ever been laid out equals its position (x, y), for the
\* visible nodes and for the hidden ones
C21_ShadowEqualsPosition ==
    Loaded =>
        \A n \in DOMAIN x :
            /\ n \in DOMAIN x0 /\ n \in DOMAIN y0 /\ n \in DOMAIN y
            /\ x0[n] = x[n] /\ y0[n] = y[n]

\* after an activation a hidden node keeps a position of an earlier pass
\* that no visible node has, and its shadow with it
C21_Witness ==
    /\ Loaded /\ activations >= 1
    /\ \E n \in DOMAIN x :
          /\ n \notin visibleNodes
          /\ x0[n] = x[n] /\ y0[n] = y[n]
          /\ y[n] > bounds.maxY

\* the node the redraw of this step is anchored at: the root at the load,
\* the activated node afterwards
anchorNode == IF fetch = "pending" THEN rootNodeD3 ELSE outcome'.node

\* its position before the layout pass of this step, as <<y, x>>: the preset
\* one of the root at the load
positionBefore ==
    IF fetch = "pending" THEN <<0, rootX0(variant)>> ELSE <<y[anchorNode], x[anchorNode]>>

\* the node and link elements after the step
elementsAfter == Range(rendered') \cup Range(renderedLinks')

\* every item that enters in this step starts at the anchor node's position
\* before the pass
EnteringStartAtPrevious ==
    \A e \in elementsAfter : (e.tr = "update" /\ e.anchor # NoAnchor) => e.anchor = positionBefore

\* C22 as stated: in a redraw anchored at node n every entering node and
\* edge starts at the position n had before the pass, and every exiting
\* node and edge is sent to the position this pass computed for n
C22_AnchorsOldAndNewlyComputed ==
    [][Redraw =>
          /\ EnteringStartAtPrevious
          /\ \A e \in elementsAfter :
                e.tr = "exit" => /\ anchorNode \in visible(children')
                                 /\ e.anchor = <<y'[anchorNode], x'[anchorNode]>>]_vars

\* what the code does: every entering node and edge starts at the position
\* n had before the pass, and every exiting node and edge is sent to the
\* position n has after the pass: the newly computed one when n is visible,
\* and the one of the last pass that laid n out when n is hidden
C22_AnchorsOldAndCurrent ==
    [][Redraw =>
          /\ EnteringStartAtPrevious
          /\ \A e \in elementsAfter :
                e.tr = "exit" => e.anchor = <<y'[anchorNode], x'[anchorNode]>>
          /\ anchorNode \notin visible(children') =>
                x'[anchorNode] = x[anchorNode] /\ y'[anchorNode] = y[anchorNode]]_vars

\* an activation moved the activated node, and a node and an edge entered
\* at the place it had before, which is neither its new place nor their own
C22_Witness ==
    /\ Activated
    /\ \E e \in Range(rendered), l \in Range(renderedLinks) :
          /\ e.tr = "update" /\ e.anchor # NoAnchor
          /\ l.tr = "update" /\ l.anchor = e.anchor
          /\ e.anchor # <<y[outcome.node], x[outcome.node]>>
          /\ e.anchor # <<y[e.datum], x[e.datum]>>

\* an activation of a visible node sent a node and an edge to its new place
C22_WitnessExit ==
    /\ Activated /\ outcome.node \in visibleNodes
    /\ \E e \in Range(rendered), l \in Range(renderedLinks) :
          /\ e.tr = "exit" /\ l.tr = "exit"
          /\ e.anchor = <<y[outcome.node], x[outcome.node]>> /\ l.anchor = e.anchor

\* an activation of a hidden node sent the exiting items to its old place
C22_WitnessHidden ==
    /\ Activated /\ outcome.node \notin visibleNodes
    /\ \E e \in Range(rendered) :
          e.tr = "exit" /\ e.anchor = <<y[outcome.node], x[outcome.node]>>

\* the edges of the display: the path.link elements bound to a link of the
\* last layout pass (the others are fading out and are removed), in document
\* order
edges == SelectSeq(renderedLinks, LAMBDA l : l.tr # "exit")

\* the links the last layout pass produced, recomputed from the visible tree
edgeData == IF Loaded THEN links([m \in NodesOf(doc) |-> ListOf(children[m])]) ELSE <<>>

\* C23: after every layout pass there is exactly one edge per visible node
\* below the root, from its parent to it, keyed by the identifier of the
\* child: as many edges as visible nodes minus one, no node with two
\* incoming edges, and no edge with an end in a hidden subtree
C23_OneEdgePerVisibleChild ==
    Loaded =>
        /\ Len(edges) = Cardinality(visibleNodes) - 1
        /\ Len(edgeData) = Len(edges)
        /\ \A i, j \in DOMAIN edges : edges[i].target = edges[j].target => i = j
        /\ {edges[i].target : i \in DOMAIN edges} = visibleNodes \ {rootNodeD3}
        /\ Range(edgeData) = visibleNodes \ {rootNodeD3}
        /\ \A i \in DOMAIN edges :
              /\ edges[i].target # rootNodeD3
              /\ parentOf(doc, edges[i].target) \in visibleNodes
              /\ edges[i].target \in Range(ListOf(children[parentOf(doc, edges[i].target)]))
              /\ TruthyStr(id[edges[i].target])

\* after activations part of the tree is hidden and part of it is drawn
\* below the root's children, and an edge into the hidden part is still
\* fading out
C23_Witness ==
    /\ Loaded /\ activations >= 1
    /\ Len(edges) >= 3
    /\ \E n \in NodesOf(doc) : n \notin visibleNodes
    /\ \E i \in DOMAIN edges : parentOf(doc, edges[i].target) # rootNodeD3
    /\ \E l \in Range(renderedLinks) : l.tr = "exit" /\ l.target \notin visibleNodes

\* the same with two visible children that share an identifier
C23_WitnessSharedKey ==
    /\ Loaded /\ activations >= 1
    /\ \E i, j \in DOMAIN edges :
          i # j /\ id[edges[i].target] = id[edges[j].target]

-----------------------------------------------------------------------------
(* The activation handler *)

\* the step handles the activation of node d as the handler does: the
\* toggle of d first, then the redraw of the toggled tree anchored at d,
\* then the panel update with the record of d
handled(d) ==
    LET T == toggleChildren([children |-> children, _children |-> _children], d)
        ch == [m \in NodesOf(doc) |-> ListOf(T.children[m])]
    IN /\ children' = T.children /\ _children' = T._children
       /\ \A r \in treeLayout(ch, nodeSize(variant)) : x'[r.n] = r.x /\ y'[r.n] = r.y
       /\ {e.datum : e \in {r \in Range(rendered') : r.tr # "exit"}} = visible(T.children)
       /\ \A e \in elementsAfter : e.tr = "exit" => e.anchor = <<y'[d], x'[d]>>
       /\ record' = recordOf(doc, d)
       /\ panel' = displayDetails(variant, doc, d)

\* C24: an activation does the toggle, the redraw anchored at the activated
\* node and the panel update in this order and as one step, so after any
\* sequence of activations the panel shows the record of the node activated
\* last, whether or not the activation changed the visible set
C24_ActivationRunsToCompletion ==
    /\ [][Activation => handled(outcome'.node)]_vars
    /\ [](Activated => /\ panel = displayDetails(variant, doc, outcome.node)
                       /\ record = recordOf(doc, outcome.node)
                       /\ ~outcome.threw)

\* the node activated last is a leaf, activated after a node with another
\* record: the panel shows the leaf's record, which no other node has
C24_Witness ==
    /\ Activated /\ activations >= 2
    /\ Docs[doc].kids[outcome.node] = <<>>
    /\ children[outcome.node] = UNDEF
    /\ panel = displayDetails(variant, doc, outcome.node)
    /\ \A n \in NodesOf(doc) \ {outcome.node} : displayDetails(variant, doc, n) # panel

====
